---- MODULE Spec2Model ----
(***************************************************************************)
(* ClaudioScribe: the web trigger (app.py process_recording), its worker   *)
(* threads (pipeline.py process_plaud_recording), the status store         *)
(* (pipeline_status.json), the transcript cache, the file watcher          *)
(* (watcher.py) and startup recovery (reset_stale_statuses); and, each on   *)
(* its own, the two JSON stores on files of every kind, the recording       *)
(* source gateway (plaud_client.py), the document file name                 *)
(* (doc_writer.py), the Drive upload (gdrive_client.py), the tool-use      *)
(* loop (pipeline.py create_document_via_claude) and the local file name   *)
(* of a recording.                                                         *)
(*                                                                         *)
(* File names are sequences of one-character strings, so that the glob,    *)
(* the sort and the extension tests are computed as the code computes      *)
(* them.  A file's content is the thing it was made from: an audio file    *)
(* holds the bytes of one recording, a transcript holds the text of one    *)
(* audio.                                                                  *)
(***************************************************************************)
EXTENDS Integers, Sequences, FiniteSets, TLC

VARIABLES
    statusFile,    \* PIPELINE_STATUS_FILE: recording id -> entry, or NoEntry
    lockHolder,    \* _processing_lock: 0 when free, else the worker holding it
    req,           \* one HTTP request POST /process/<id> per index
    wk,            \* the worker thread each accepted request starts
    watchInput,    \* audio files in /watch/input: name and content
    archiveDir,    \* audio files in ARCHIVE_DIR
    transcripts,   \* files in /app/config/transcripts: name and content
    history,       \* HISTORY_FILE, newest first
    gdrive,        \* names present in the Drive folders
    now,           \* the clock datetime.now() reads
    wt,            \* the watcher process: its handler's position and file
    wtEvents,      \* created-events watchdog has queued for AudioHandler
    PROCESSED,     \* watcher.py PROCESSED
    boot,          \* "booting" until reset_stale_statuses has run
    storeKind,     \* what the status file and the history file hold on disk
    call,          \* the last call made on the two stores, and how it ended
    plaud,         \* a PlaudClient, the call it is in, and the server it talks to
    doc,           \* a title given to doc_writer and the name made of it
    drive,         \* Drive's files, and the last upload_file call
    loop,          \* one run of create_document_via_claude's tool-use loop
    naming         \* a provider name and the local names derived from it

vars == <<statusFile, lockHolder, req, wk, watchInput, archiveDir, transcripts,
          history, gdrive, now, wt, wtEvents, PROCESSED, boot,
          storeKind, call, plaud, doc, drive, loop, naming>>

\* the parts that the trigger, the workers and the watcher never touch
Aside == <<storeKind, call, plaud, doc, drive, loop, naming>>

----------------------------------------------------------------------------
(* Bounds *)

\* HTTP trigger requests served in one process lifetime
MaxRequests == 2

\* tool_use responses the LLM gives in one conversation before it must stop
MaxRounds == 1

----------------------------------------------------------------------------
(* Strings *)

\* the characters of the model's names, in code-point order
AsciiOrder ==
    <<" ", "-", ".", "0", "1", "2", "3", "4", "5", "6", "7", "8", "9",
      "A", "B", "C", "D", "E", "F", "G", "H", "I", "J", "K", "L", "M",
      "N", "O", "P", "Q", "R", "S", "T", "U", "V", "W", "X", "Y", "Z",
      "_",
      "a", "b", "c", "d", "e", "f", "g", "h", "i", "j", "k", "l", "m",
      "n", "o", "p", "q", "r", "s", "t", "u", "v", "w", "x", "y", "z">>

Ord(c) == IF \E i \in 1..Len(AsciiOrder) : AsciiOrder[i] = c
          THEN CHOOSE i \in 1..Len(AsciiOrder) : AsciiOrder[i] = c
          ELSE 0

\* str.lower() on one character: "A".."Z" are 14..39, "a".."z" are 41..66
LowerChar(c) == IF Ord(c) >= 14 /\ Ord(c) <= 39 THEN AsciiOrder[Ord(c) + 27] ELSE c

Lower(s) == [i \in 1..Len(s) |-> LowerChar(s[i])]

StartsWith(s, p) == Len(s) >= Len(p) /\ SubSeq(s, 1, Len(p)) = p

EndsWith(s, p) == Len(s) >= Len(p) /\ SubSeq(s, Len(s) - Len(p) + 1, Len(s)) = p

\* s < t in Python's string order (code points, a proper prefix first)
StrLess(s, t) ==
    \/ Len(s) < Len(t) /\ SubSeq(t, 1, Len(s)) = s
    \/ \E i \in 1..Len(s) :
          /\ i <= Len(t)
          /\ SubSeq(s, 1, i - 1) = SubSeq(t, 1, i - 1)
          /\ Ord(s[i]) < Ord(t[i])

\* str.strip(): leading and trailing spaces removed
RECURSIVE LStrip(_)
LStrip(s) == IF s # <<>> /\ Head(s) = " " THEN LStrip(Tail(s)) ELSE s

RECURSIVE RStrip(_)
RStrip(s) == IF s # <<>> /\ s[Len(s)] = " " THEN RStrip(SubSeq(s, 1, Len(s) - 1)) ELSE s

Strip(s) == RStrip(LStrip(s))

\* the index of the last "." of s, 0 when there is none
LastDot(s) == IF \E i \in 1..Len(s) : s[i] = "."
              THEN CHOOSE i \in 1..Len(s) :
                       s[i] = "." /\ \A j \in (i + 1)..Len(s) : s[j] # "."
              ELSE 0

\* os.path.splitext(name)[0]: leading dots are not an extension separator
SplitextRoot(s) ==
    LET d == LastDot(s)
    IN  IF d = 0 \/ \A j \in 1..(d - 1) : s[j] = "." THEN s ELSE SubSeq(s, 1, d - 1)

DotMp3 == <<".", "m", "p", "3">>
DotTxt == <<".", "t", "x", "t">>
AudioExtensions ==
    { DotMp3, <<".", "o", "g", "g">>, <<".", "m", "4", "a">>,
      <<".", "w", "a", "v">>, <<".", "f", "l", "a", "c">> }

HasAudioExtension(s) == \E e \in AudioExtensions : EndsWith(Lower(s), e)

\* pipeline._sanitize_filename
KeepChars == { AsciiOrder[i] : i \in 1..Len(AsciiOrder) }

_sanitize_filename(name) ==
    LET kept == Strip(SelectSeq(name, LAMBDA c : c \in KeepChars))
    IN  IF kept = <<>> THEN <<"r", "e", "c", "o", "r", "d", "i", "n", "g">> ELSE kept

\* process_plaud_recording's local file name, lines 323-326
LocalFilename(raw_filename) ==
    _sanitize_filename(IF HasAudioExtension(raw_filename)
                       THEN raw_filename
                       ELSE raw_filename \o DotMp3)

----------------------------------------------------------------------------
(* The recordings the provider lists, and the status store's entries *)

RecIds == {"r1", "r2"}

\* the "filename" the provider's list gives for each recording
ProviderName(id) ==
    IF id = "r1" THEN <<"m", ".", "m", "p", "3">>
                 ELSE <<"m", "_", "2", ".", "m", "p", "3">>

_ACTIVE_STATUSES ==
    {"queued", "downloading", "uploading_recording", "transcribing", "analyzing"}

TerminalStatuses == {"processed", "error"}

Statuses == _ACTIVE_STATUSES \cup TerminalStatuses

NoEntry == [status |-> "new"]
NoFilename == <<>>

\* datetime.now(...).strftime("%Y%m%d_%H%M") at clock value t
Timestamp(t) == <<"2", "0", "_", AsciiOrder[4 + t]>>

\* f"{base_name}_{timestamp}.txt"
TranscriptName(base_name, timestamp) == base_name \o <<"_">> \o timestamp \o DotTxt

\* what a JSON file of the configuration directory can hold: a well-formed
\* store, nothing (no file), text that is not JSON, bytes that are not UTF-8,
\* or valid JSON of another shape (null, a list for the status store, an
\* object for the history)
StoreKinds == {"json", "absent", "garbage", "not_utf8", "other_json"}

\* what open() and json.load do with such a file in load_pipeline_status and
\* _load_history: the missing file and JSONDecodeError give the empty store,
\* UnicodeDecodeError is not caught, and any valid JSON value is returned
LoadOutcome(kind) ==
    CASE kind \in {"absent", "garbage"} -> "empty"
      [] kind = "json" -> "value"
      [] kind = "other_json" -> "alien"
      [] kind = "not_utf8" -> "raise"

EmptyStore == [id \in RecIds |-> NoEntry]

\* load_pipeline_status: the store as a mapping
load_pipeline_status ==
    IF LoadOutcome(storeKind.status) = "empty" THEN EmptyStore ELSE statusFile

\* _load_history: the history as a list
_load_history ==
    IF LoadOutcome(storeKind.history) = "empty" THEN <<>> ELSE history

\* pipeline_status.get(file_id, {}).get("status", "new")
StatusOf(all_status, file_id) == all_status[file_id].status

\* set_pipeline_status, lines 52-57: the mapping it writes back
UpdatedStore(all_status, file_id, status, filename) ==
    [all_status EXCEPT ![file_id] =
        [status   |-> status,
         updated  |-> now,
         filename |-> IF filename # NoFilename THEN filename
                      ELSE IF all_status[file_id] = NoEntry THEN NoFilename
                      ELSE all_status[file_id].filename]]

----------------------------------------------------------------------------
(* The trigger handler, app.py process_recording *)

Reqs == 1..MaxRequests

IdleReq == [pc |-> "idle", id |-> "r1", raw |-> NoFilename,
            all_status |-> <<>>, resp |-> 0]

NoWorker == [pc |-> "none", loaded |-> FALSE, all_status |-> <<>>,
             filename |-> NoFilename, transcript |-> "none", reused |-> FALSE,
             engine |-> FALSE, created |-> 0, rounds |-> 0, last |-> "queued",
             timestamp |-> <<>>, exc |-> ""]

Respond(i, code) == req' = [req EXCEPT ![i].pc = "done", ![i].resp = code]

\* lines 243-246: the status check
CheckStatus(i, file_id) ==
    /\ boot = "serving"
    /\ req[i].pc = "idle"
    /\ \A j \in 1..(i - 1) : req[j].pc # "idle"
    /\ LET current == StatusOf(load_pipeline_status, file_id)
       IN  IF current \notin {"new", "error", "processed"}
           THEN req' = [req EXCEPT ![i].pc = "done", ![i].id = file_id, ![i].resp = 409]
           ELSE req' = [req EXCEPT ![i].pc = "check_lock", ![i].id = file_id]
    /\ UNCHANGED Aside
    /\ UNCHANGED <<statusFile, lockHolder, wk, watchInput, archiveDir, transcripts,
                   history, gdrive, now, wt, wtEvents, PROCESSED, boot>>

WrongLocked == FALSE

\* _processing_lock.locked()
Locked == lockHolder # 0

\* lines 249-267: the gate check, the token, the provider's list
CheckLock(i) ==
    /\ req[i].pc = "check_lock"
    /\ \/ /\ Locked
          /\ Respond(i, 409)
       \/ /\ ~Locked
          /\ \/ Respond(i, 400)                       \* no Plaud token configured
             \/ req' = [req EXCEPT ![i].pc = "queue_load",
                                    ![i].raw = ProviderName(req[i].id)]
    /\ UNCHANGED Aside
    /\ UNCHANGED <<statusFile, lockHolder, wk, watchInput, archiveDir, transcripts,
                   history, gdrive, now, wt, wtEvents, PROCESSED, boot>>

\* line 270, set_pipeline_status line 51: the read of the store
QueueLoad(i) ==
    /\ req[i].pc = "queue_load"
    /\ req' = [req EXCEPT ![i].pc = "queue_write", ![i].all_status = load_pipeline_status]
    /\ UNCHANGED Aside
    /\ UNCHANGED <<statusFile, lockHolder, wk, watchInput, archiveDir, transcripts,
                   history, gdrive, now, wt, wtEvents, PROCESSED, boot>>

\* line 270, set_pipeline_status lines 52-60, then lines 284-287: the thread starts
QueueWrite(i) ==
    /\ req[i].pc = "queue_write"
    /\ \/ /\ statusFile' = UpdatedStore(req[i].all_status, req[i].id, "queued", req[i].raw)
          /\ req' = [req EXCEPT ![i].pc = "done", ![i].resp = 200, ![i].all_status = <<>>]
          /\ wk' = [wk EXCEPT ![i] = [NoWorker EXCEPT !.pc = "start"]]
       \/ /\ req' = [req EXCEPT ![i].pc = "done", ![i].resp = 500, ![i].all_status = <<>>]
          /\ UNCHANGED <<statusFile, wk>>              \* the write raises OSError
    /\ UNCHANGED Aside
    /\ UNCHANGED <<lockHolder, watchInput, archiveDir, transcripts,
                   history, gdrive, now, wt, wtEvents, PROCESSED, boot>>

----------------------------------------------------------------------------
(* Files *)

Exists(dir, name) == \E f \in dir : f.name = name

ContentOf(dir, name) == (CHOOSE f \in dir : f.name = name).content

\* open(path, "w") and write: the file of that name now holds content
WriteFile(dir, name, content) ==
    {f \in dir : f.name # name} \cup {[name |-> name, content |-> content]}

RemoveFile(dir, name) == {f \in dir : f.name # name}

\* glob.glob(f"{base_name}_*.txt"): the names the pattern matches
GlobMatches(base_name, dir) ==
    {f.name : f \in {g \in dir : /\ StartsWith(g.name, base_name \o <<"_">>)
                                 /\ EndsWith(g.name, DotTxt)
                                 /\ Len(g.name) >= Len(base_name) + 1 + Len(DotTxt)}}

\* sorted(names)[-1]
LastSorted(names) == CHOOSE n \in names : \A m \in names : m = n \/ StrLess(m, n)

\* _find_existing_transcript: the name found, <<>> for None
_find_existing_transcript(base_name, transcript_dir) ==
    LET matches == GlobMatches(base_name, transcript_dir)
    IN  IF matches = {} THEN <<>> ELSE LastSorted(matches)

----------------------------------------------------------------------------
(* The worker thread: process_recording._run and process_plaud_recording *)

\* each set_pipeline_status call of process_plaud_recording: the status it
\* writes and where the run goes next
SetSites ==
    [set_downloading  |-> [status |-> "downloading",         next |-> "download"],
     set_dl_error     |-> [status |-> "error",               next |-> "hist_dl_error"],
     set_uploading    |-> [status |-> "uploading_recording", next |-> "upload"],
     set_transcribing |-> [status |-> "transcribing",        next |-> "transcribe"],
     set_analyzing    |-> [status |-> "analyzing",           next |-> "analyze"],
     set_processed    |-> [status |-> "processed",           next |-> "hist_success"],
     set_error        |-> [status |-> "error",               next |-> "hist_error"]]

\* the positions inside process_plaud_recording
InPipeline ==
    (DOMAIN SetSites) \cup
    {"prep", "download", "upload", "find", "transcribe", "save_transcript",
     "analyze", "archive", "hist_dl_error", "hist_success", "hist_error"}

WrongCanAcquire == TRUE

\* `with _processing_lock:` may enter
CanAcquire == lockHolder = 0

\* the exception handler of lines 378-381 takes over
Except(i, message) == wk' = [wk EXCEPT ![i].pc = "set_error", ![i].exc = message,
                                       ![i].loaded = FALSE, ![i].all_status = <<>>]

\* a thread that has ended: its locals are gone, the model keeps how it ended
\* and the last status it wrote
Ended(how, last) == [NoWorker EXCEPT !.pc = how, !.last = last]

WrongPropagate(i, message) ==
    /\ wk' = [wk EXCEPT ![i] = Ended("crashed", wk[i].last)]
    /\ UNCHANGED lockHolder

\* an exception leaves process_plaud_recording and _run: the with block
\* releases the lock and the thread dies
Propagate(i, message) ==
    /\ wk' = [wk EXCEPT ![i] = Ended("crashed", wk[i].last)]
    /\ lockHolder' = 0

\* line 274
Acquire(i) ==
    /\ wk[i].pc = "start"
    /\ CanAcquire
    /\ lockHolder' = i
    /\ wk' = [wk EXCEPT ![i].pc = "prep"]
    /\ UNCHANGED Aside
    /\ UNCHANGED <<statusFile, req, watchInput, archiveDir, transcripts,
                   history, gdrive, now, wt, wtEvents, PROCESSED, boot>>

\* lines 323-332, outside the try: the local name, os.makedirs, the timestamp
Prep(i) ==
    /\ wk[i].pc = "prep"
    /\ \/ /\ wk' = [wk EXCEPT ![i].pc = "set_downloading",
                              ![i].filename = LocalFilename(req[i].raw),
                              ![i].timestamp = Timestamp(now)]
          /\ UNCHANGED lockHolder
       \/ Propagate(i, "OSError")                     \* os.makedirs raises
    /\ UNCHANGED Aside
    /\ UNCHANGED <<statusFile, req, watchInput, archiveDir, transcripts,
                   history, gdrive, now, wt, wtEvents, PROCESSED, boot>>

\* set_pipeline_status line 51, at any of its call sites
SetLoad(i) ==
    /\ wk[i].pc \in DOMAIN SetSites
    /\ ~wk[i].loaded
    /\ wk' = [wk EXCEPT ![i].loaded = TRUE, ![i].all_status = load_pipeline_status]
    /\ UNCHANGED Aside
    /\ UNCHANGED <<statusFile, lockHolder, req, watchInput, archiveDir, transcripts,
                   history, gdrive, now, wt, wtEvents, PROCESSED, boot>>

\* set_pipeline_status lines 52-60, at any of its call sites
SetWrite(i) ==
    /\ wk[i].pc \in DOMAIN SetSites
    /\ wk[i].loaded
    /\ LET site == SetSites[wk[i].pc]
       IN  \/ /\ statusFile' = UpdatedStore(wk[i].all_status, req[i].id,
                                            site.status, wk[i].filename)
              /\ wk' = [wk EXCEPT ![i].pc = site.next, ![i].last = site.status,
                                  ![i].loaded = FALSE, ![i].all_status = <<>>]
              /\ UNCHANGED lockHolder
           \/ /\ wk[i].pc # "set_error"               \* open() raises, inside the try
              /\ Except(i, "OSError")
              /\ UNCHANGED <<statusFile, lockHolder>>
           \/ /\ wk[i].pc = "set_error"               \* open() raises in the handler
              /\ Propagate(i, "OSError")
              /\ UNCHANGED statusFile
    /\ UNCHANGED Aside
    /\ UNCHANGED <<req, watchInput, archiveDir, transcripts,
                   history, gdrive, now, wt, wtEvents, PROCESSED, boot>>

\* PlaudClient.download_recording, called at line 337
Download(i) ==
    /\ wk[i].pc = "download"
    /\ \/ /\ watchInput' = WriteFile(watchInput, wk[i].filename, req[i].id)
          /\ wtEvents' = IF Exists(watchInput, wk[i].filename) THEN wtEvents
                         ELSE wtEvents \cup {wk[i].filename}
          /\ wk' = [wk EXCEPT ![i].pc = "set_uploading"]
       \/ /\ wk' = [wk EXCEPT ![i].pc = "set_dl_error"]    \* _request returns None
          /\ UNCHANGED <<watchInput, wtEvents>>
       \/ /\ watchInput' = WriteFile(watchInput, wk[i].filename, "partial")
          /\ wtEvents' = IF Exists(watchInput, wk[i].filename) THEN wtEvents
                         ELSE wtEvents \cup {wk[i].filename}
          /\ wk' = [wk EXCEPT ![i].pc = "set_dl_error"]    \* f.write raises OSError
    /\ UNCHANGED Aside
    /\ UNCHANGED <<statusFile, lockHolder, req, archiveDir, transcripts,
                   history, gdrive, now, wt, PROCESSED, boot>>

\* where the run goes after _upload_to_gdrive(file_path, "recordings"):
\* uploaded is TRUE when the file reached Drive, FALSE when the client raised
\* or Drive is not configured
WrongAfterUpload(uploaded) == IF uploaded THEN "find" ELSE "set_error"

AfterUpload(uploaded) == "find"

\* _upload_to_gdrive(file_path, "recordings"), line 344
Upload(i) ==
    /\ wk[i].pc = "upload"
    /\ \E uploaded \in BOOLEAN :
          /\ gdrive' = IF uploaded THEN gdrive \cup {wk[i].filename} ELSE gdrive
          /\ wk' = [wk EXCEPT ![i].pc = AfterUpload(uploaded),
                              ![i].exc = IF AfterUpload(uploaded) = "set_error"
                                         THEN "upload failed" ELSE @]
    /\ UNCHANGED Aside
    /\ UNCHANGED <<statusFile, lockHolder, req, watchInput, archiveDir, transcripts,
                   history, now, wt, wtEvents, PROCESSED, boot>>

\* lines 347-358: the transcript cache
Find(i) ==
    /\ wk[i].pc = "find"
    /\ LET existing_transcript ==
               _find_existing_transcript(SplitextRoot(wk[i].filename), transcripts)
       IN  IF existing_transcript # <<>>
           THEN wk' = [wk EXCEPT ![i].pc = "set_analyzing", ![i].reused = TRUE,
                          ![i].transcript = ContentOf(transcripts, existing_transcript)]
           ELSE wk' = [wk EXCEPT ![i].pc = "set_transcribing"]
    /\ UNCHANGED Aside
    /\ UNCHANGED <<statusFile, lockHolder, req, watchInput, archiveDir, transcripts,
                   history, gdrive, now, wt, wtEvents, PROCESSED, boot>>

\* transcribe_audio, called at line 359
Transcribe(i) ==
    /\ wk[i].pc = "transcribe"
    /\ \/ /\ Exists(watchInput, wk[i].filename)
          /\ wk' = [wk EXCEPT ![i].pc = "save_transcript", ![i].engine = TRUE,
                              ![i].transcript = ContentOf(watchInput, wk[i].filename)]
       \/ /\ wk' = [wk EXCEPT ![i].pc = "set_error", ![i].engine = TRUE,
                              ![i].exc = "transcription failed"]
    /\ UNCHANGED Aside
    /\ UNCHANGED <<statusFile, lockHolder, req, watchInput, archiveDir, transcripts,
                   history, gdrive, now, wt, wtEvents, PROCESSED, boot>>

\* lines 361-366: the transcript is saved
SaveTranscript(i) ==
    /\ wk[i].pc = "save_transcript"
    /\ \/ /\ transcripts' = WriteFile(transcripts,
                                TranscriptName(SplitextRoot(wk[i].filename), wk[i].timestamp),
                                wk[i].transcript)
          /\ wk' = [wk EXCEPT ![i].pc = "set_analyzing"]
       \/ /\ Except(i, "OSError")
          /\ UNCHANGED transcripts
    /\ UNCHANGED Aside
    /\ UNCHANGED <<statusFile, lockHolder, req, watchInput, archiveDir,
                   history, gdrive, now, wt, wtEvents, PROCESSED, boot>>

\* create_document_via_claude, called at line 370: one response of the LLM
Analyze(i) ==
    /\ wk[i].pc = "analyze"
    /\ \/ wk' = [wk EXCEPT ![i].pc = "archive"]        \* end_turn: break
       \/ /\ wk[i].rounds < MaxRounds                  \* tool_use: create_document
          /\ wk' = [wk EXCEPT ![i].rounds = @ + 1, ![i].created = @ + 1]
       \/ /\ wk[i].rounds < MaxRounds                  \* tool_use: list_documents
          /\ wk' = [wk EXCEPT ![i].rounds = @ + 1]
       \/ Except(i, "Claude failed: stop_reason")      \* any other stop_reason
       \/ Except(i, "tool or API error")               \* the API or a tool raises
    /\ UNCHANGED Aside
    /\ UNCHANGED <<statusFile, lockHolder, req, watchInput, archiveDir, transcripts,
                   history, gdrive, now, wt, wtEvents, PROCESSED, boot>>

\* archive_audio, called at line 373
Archive(i) ==
    /\ wk[i].pc = "archive"
    /\ \/ /\ Exists(watchInput, wk[i].filename)
          /\ archiveDir' = WriteFile(archiveDir, wk[i].filename,
                                     ContentOf(watchInput, wk[i].filename))
          /\ watchInput' = RemoveFile(watchInput, wk[i].filename)
          /\ wk' = [wk EXCEPT ![i].pc = "set_processed"]
       \/ /\ Except(i, "rename failed")                \* os.rename raises
          /\ UNCHANGED <<watchInput, archiveDir>>
    /\ UNCHANGED Aside
    /\ UNCHANGED <<statusFile, lockHolder, req, transcripts,
                   history, gdrive, now, wt, wtEvents, PROCESSED, boot>>

MAX_HISTORY == 50

WrongHistoryWith(h, filename, status, message) ==
    <<[filename |-> filename, status |-> status,
       message |-> message, timestamp |-> now]>> \o h

\* add_history_entry: the list it writes
HistoryWith(h, filename, status, message) ==
    LET added == <<[filename |-> filename, status |-> status,
                    message |-> message, timestamp |-> now]>> \o h
    IN  SubSeq(added, 1, IF Len(added) < MAX_HISTORY THEN Len(added) ELSE MAX_HISTORY)

\* _record_history: the entry is added, or the failure is swallowed
RecordHistory(filename, status, message) ==
    \/ history' = HistoryWith(history, filename, status, message)
    \/ UNCHANGED history

\* lines 339-340, 375-376 and 381: the history entry, then the function
\* returns and the with block of _run releases the lock
Finish(i) ==
    /\ wk[i].pc \in {"hist_dl_error", "hist_success", "hist_error"}
    /\ IF wk[i].pc = "hist_success" THEN RecordHistory(wk[i].filename, "success", "")
       ELSE IF wk[i].pc = "hist_dl_error"
            THEN RecordHistory(wk[i].filename, "error", "Download failed")
            ELSE RecordHistory(wk[i].filename, "error", wk[i].exc)
    /\ wk' = [wk EXCEPT ![i] = Ended("done", wk[i].last)]
    /\ lockHolder' = 0
    /\ UNCHANGED Aside
    /\ UNCHANGED <<statusFile, req, watchInput, archiveDir, transcripts,
                   gdrive, now, wt, wtEvents, PROCESSED, boot>>

----------------------------------------------------------------------------
(* The parts at rest: well-formed stores, no call made, no client, no title, *)
(* an empty Drive                                                            *)

NoCall == [fn |-> "none", outcome |-> "none", loaded |-> "none"]

JsonStores == [status |-> "json", history |-> "json"]

NoPlaud == [pc |-> "none", fn |-> "none", base_url |-> "none", retries |-> 0,
            result |-> "none", server |-> <<>>]

NoDoc == [pc |-> "none", title |-> <<>>, safe |-> <<>>]

NoDrive == [files |-> {}, filename |-> <<>>, folder_id |-> "none",
            outcome |-> "none", created |-> FALSE, result |-> 0, calls |-> 0]

NoResponse == [stop_reason |-> "none", content |-> <<>>]

NoLoop == [pc |-> "none", messages |-> <<>>, files |-> {}, handled |-> 0,
           rounds |-> 0, timestamp |-> <<>>, response |-> NoResponse,
           error |-> "none"]

NoNaming == [pc |-> "none", raw_filename |-> <<>>, filename |-> <<>>, safe_name |-> <<>>]

AsideIdle ==
    /\ storeKind = JsonStores
    /\ call = NoCall
    /\ loop = NoLoop
    /\ naming = NoNaming
    /\ plaud = NoPlaud
    /\ doc = NoDoc
    /\ drive = NoDrive

----------------------------------------------------------------------------
(* The web process after startup *)

\* what earlier lifetimes of the process may have left for one recording:
\* nothing, or a completed run (a failed one is reached from these)
Leftovers == {"none", "completed"}

OldEntry(id, left) ==
    IF left = "none" THEN NoEntry
    ELSE [status   |-> IF left = "completed" THEN "processed" ELSE "error",
          updated  |-> 0,
          filename |-> LocalFilename(ProviderName(id))]

OldArchive(past) ==
    {[name |-> LocalFilename(ProviderName(id)), content |-> id] :
        id \in {r \in RecIds : past[r] = "completed"}}

OldTranscripts(past) ==
    {[name |-> TranscriptName(SplitextRoot(LocalFilename(ProviderName(id))), Timestamp(0)),
      content |-> id] :
        id \in {r \in RecIds : past[r] = "completed"}}

IdleWatcher == [pc |-> "idle", file |-> <<>>, rounds |-> 0, created |-> 0]

Init ==
    \E past \in [RecIds -> Leftovers] :
       /\ statusFile = [id \in RecIds |-> OldEntry(id, past[id])]
       /\ watchInput = {}
       /\ archiveDir = OldArchive(past)
       /\ transcripts = OldTranscripts(past)
       /\ lockHolder = 0
       /\ req = [i \in Reqs |-> IdleReq]
       /\ wk = [i \in Reqs |-> NoWorker]
       /\ history = <<>>
       /\ gdrive = {}
       /\ now = 1
       /\ wt = IdleWatcher
       /\ wtEvents = {}
       /\ PROCESSED = {}
       /\ boot = "serving"
       /\ AsideIdle

\* the steps of request i and of the worker thread it starts
WebStep(i) ==
    \/ \E file_id \in RecIds : CheckStatus(i, file_id)
    \/ CheckLock(i)
    \/ QueueLoad(i)
    \/ QueueWrite(i)
    \/ Acquire(i)
    \/ Prep(i)
    \/ SetLoad(i)
    \/ SetWrite(i)
    \/ Download(i)
    \/ Upload(i)
    \/ Find(i)
    \/ Transcribe(i)
    \/ SaveTranscript(i)
    \/ Analyze(i)
    \/ Archive(i)
    \/ Finish(i)

Next == \E i \in Reqs : WebStep(i)

Spec == Init /\ [][Next]_vars

\* the steps of the worker thread that request i started
WorkerStep(i) ==
    \/ Acquire(i)
    \/ Prep(i)
    \/ SetLoad(i)
    \/ SetWrite(i)
    \/ Download(i)
    \/ Upload(i)
    \/ Find(i)
    \/ Transcribe(i)
    \/ SaveTranscript(i)
    \/ Analyze(i)
    \/ Archive(i)
    \/ Finish(i)

\* the process is not killed and every external call returns or raises: a
\* worker thread that can take a step takes one
SpecLive == Init /\ [][Next]_vars /\ \A i \in Reqs : WF_vars(WorkerStep(i))

----------------------------------------------------------------------------
(* Startup recovery: app.py __main__ calls reset_stale_statuses before it serves *)

\* the clock values of earlier lifetimes
OldTimes == {0, 1}

\* the entries set_pipeline_status can have written for a recording
StoredEntries(id) ==
    [status : Statuses, updated : OldTimes, filename : {NoFilename, ProviderName(id)}]

WrongStaleStatuses == _ACTIVE_STATUSES \ {"queued"}

\* the statuses the loop of lines 72-81 rewrites
StaleStatuses == _ACTIVE_STATUSES

\* lines 72-81: the mapping after the loop
ResetStore(all_status) ==
    [id \in DOMAIN all_status |->
        IF all_status[id] # NoEntry /\ all_status[id].status \in StaleStatuses
        THEN [all_status[id] EXCEPT !.status = "error", !.updated = now]
        ELSE all_status[id]]

reset_stale_statuses ==
    /\ boot = "booting"
    /\ LET all_status == load_pipeline_status
           changed == ResetStore(all_status) # all_status
       IN  IF LoadOutcome(storeKind.status) \in {"raise", "alien"}
           THEN /\ boot' = "failed"                     \* the load, or .items(), raises
                /\ UNCHANGED statusFile
           ELSE \/ /\ statusFile' = ResetStore(all_status)
                   /\ boot' = "serving"
                \/ /\ changed                          \* open() raises: no server
                   /\ boot' = "failed"
                   /\ UNCHANGED statusFile
    /\ UNCHANGED Aside
    /\ UNCHANGED <<lockHolder, req, wk, watchInput, archiveDir, transcripts,
                   history, gdrive, now, wt, wtEvents, PROCESSED>>

InitRecovery ==
    /\ statusFile \in [RecIds -> UNION {StoredEntries(id) : id \in RecIds} \cup {NoEntry}]
    /\ \A id \in RecIds : statusFile[id] = NoEntry \/ statusFile[id] \in StoredEntries(id)
    /\ watchInput = {}
    /\ archiveDir = {}
    /\ transcripts = {}
    /\ lockHolder = 0
    /\ req = [i \in Reqs |-> IdleReq]
    /\ wk = [i \in Reqs |-> NoWorker]
    /\ history = <<>>
    /\ gdrive = {}
    /\ now = 2
    /\ wt = IdleWatcher
    /\ wtEvents = {}
    /\ PROCESSED = {}
    /\ boot = "booting"
    /\ AsideIdle

NextRecovery == reset_stale_statuses

SpecRecovery == InitRecovery /\ [][NextRecovery]_vars

----------------------------------------------------------------------------
(* The watcher process: watcher.py AudioHandler.on_created and             *)
(* pipeline.process_audio_file.  It shares the directories, the history    *)
(* file and Drive with the web process, and nothing else.                  *)

\* HTTP trigger requests served while the watcher runs beside the web process
MaxSysRequests == 1

SysReqs == 1..MaxSysRequests

SUPPORTED_EXTENSIONS ==
    { DotMp3, <<".", "m", "4", "a">>, <<".", "w", "a", "v">>,
      <<".", "o", "g", "g">>, <<".", "f", "l", "a", "c">> }

\* os.path.splitext(name)[1]
SplitextExt(s) == SubSeq(s, Len(SplitextRoot(s)) + 1, Len(s))

\* pipeline._validate_filename
_validate_filename(filename) ==
    /\ filename # <<>>
    /\ \A k \in 1..Len(filename) :
          filename[k] \notin {"/", "\\", ":", "*", "?", "\"", "<", ">", "|"}
    /\ filename[1] # "."

\* the positions inside process_audio_file
InAudioFile == {"w_begin", "w_transcribe", "w_analyze", "w_archive", "w_history"}

WatcherFrame == UNCHANGED <<statusFile, lockHolder, req, wk, now, boot>>

\* on_created, lines 46-65
OnCreated ==
    /\ wt.pc = "idle"
    /\ \E fname \in wtEvents :
          /\ wtEvents' = wtEvents \ {fname}
          /\ IF /\ Lower(SplitextExt(fname)) \in SUPPORTED_EXTENSIONS
                /\ fname \notin PROCESSED
                /\ Exists(watchInput, fname)
             THEN /\ PROCESSED' = PROCESSED \cup {fname}
                  /\ wt' = [wt EXCEPT !.pc = "w_wait", !.file = fname]
             ELSE UNCHANGED <<PROCESSED, wt>>
    /\ UNCHANGED Aside
    /\ UNCHANGED <<watchInput, archiveDir, transcripts, history, gdrive>>
    /\ WatcherFrame

\* wait_for_file and lines 67-82: the file is complete, or it never is
WaitForFile ==
    /\ wt.pc = "w_wait"
    /\ \/ /\ Exists(watchInput, wt.file)
          /\ wt' = [wt EXCEPT !.pc = "w_begin"]
          /\ UNCHANGED PROCESSED
       \/ /\ ~Exists(watchInput, wt.file)
          /\ PROCESSED' = PROCESSED \ {wt.file}
          /\ wt' = IdleWatcher
    /\ UNCHANGED Aside
    /\ UNCHANGED <<watchInput, archiveDir, transcripts, history, gdrive, wtEvents>>
    /\ WatcherFrame

\* process_audio_file lines 388-406: the checks, then the Drive upload
AudioBegin ==
    /\ wt.pc = "w_begin"
    /\ \/ /\ ~_validate_filename(wt.file)
          /\ wt' = IdleWatcher
          /\ UNCHANGED gdrive
       \/ /\ _validate_filename(wt.file)
          /\ ~Exists(watchInput, wt.file)              \* os.path.getsize raises
          /\ wt' = [IdleWatcher EXCEPT !.pc = "dead"]
          /\ UNCHANGED gdrive
       \/ /\ _validate_filename(wt.file)
          /\ Exists(watchInput, wt.file)
          /\ \E uploaded \in BOOLEAN :
                gdrive' = IF uploaded THEN gdrive \cup {wt.file} ELSE gdrive
          /\ wt' = [wt EXCEPT !.pc = "w_transcribe"]
    /\ UNCHANGED Aside
    /\ UNCHANGED <<watchInput, archiveDir, transcripts, history, wtEvents, PROCESSED>>
    /\ WatcherFrame

\* process_audio_file line 407
AudioTranscribe ==
    /\ wt.pc = "w_transcribe"
    /\ \/ /\ Exists(watchInput, wt.file)
          /\ wt' = [wt EXCEPT !.pc = "w_analyze"]
       \/ wt' = [wt EXCEPT !.pc = "w_history"]        \* transcribe_audio raises
    /\ UNCHANGED Aside
    /\ UNCHANGED <<watchInput, archiveDir, transcripts, history, gdrive, wtEvents,
                   PROCESSED>>
    /\ WatcherFrame

\* process_audio_file line 408: one response of the LLM
AudioAnalyze ==
    /\ wt.pc = "w_analyze"
    /\ \/ wt' = [wt EXCEPT !.pc = "w_archive"]        \* end_turn: break
       \/ /\ wt.rounds < MaxRounds                     \* tool_use: create_document
          /\ wt' = [wt EXCEPT !.rounds = @ + 1, !.created = @ + 1]
       \/ /\ wt.rounds < MaxRounds                     \* tool_use: list_documents
          /\ wt' = [wt EXCEPT !.rounds = @ + 1]
       \/ wt' = [wt EXCEPT !.pc = "w_history"]        \* another stop_reason, or a raise
    /\ UNCHANGED Aside
    /\ UNCHANGED <<watchInput, archiveDir, transcripts, history, gdrive, wtEvents,
                   PROCESSED>>
    /\ WatcherFrame

\* process_audio_file lines 409-411
AudioArchive ==
    /\ wt.pc = "w_archive"
    /\ \/ /\ Exists(watchInput, wt.file)
          /\ archiveDir' = WriteFile(archiveDir, wt.file, ContentOf(watchInput, wt.file))
          /\ watchInput' = RemoveFile(watchInput, wt.file)
          /\ RecordHistory(wt.file, "success", "")
          /\ wt' = IdleWatcher
       \/ /\ wt' = [wt EXCEPT !.pc = "w_history"]     \* os.rename raises
          /\ UNCHANGED <<watchInput, archiveDir, history>>
    /\ UNCHANGED Aside
    /\ UNCHANGED <<transcripts, gdrive, wtEvents, PROCESSED>>
    /\ WatcherFrame

\* process_audio_file lines 412-414
AudioFailed ==
    /\ wt.pc = "w_history"
    /\ RecordHistory(wt.file, "error", "exception")
    /\ wt' = IdleWatcher
    /\ UNCHANGED Aside
    /\ UNCHANGED <<watchInput, archiveDir, transcripts, gdrive, wtEvents, PROCESSED>>
    /\ WatcherFrame

WatcherStep ==
    \/ OnCreated
    \/ WaitForFile
    \/ AudioBegin
    \/ AudioTranscribe
    \/ AudioAnalyze
    \/ AudioArchive
    \/ AudioFailed

\* a fresh installation: no status, no files
InitSys ==
    /\ statusFile = [id \in RecIds |-> NoEntry]
    /\ watchInput = {}
    /\ archiveDir = {}
    /\ transcripts = {}
    /\ lockHolder = 0
    /\ req = [i \in Reqs |-> IdleReq]
    /\ wk = [i \in Reqs |-> NoWorker]
    /\ history = <<>>
    /\ gdrive = {}
    /\ now = 1
    /\ wt = IdleWatcher
    /\ wtEvents = {}
    /\ PROCESSED = {}
    /\ boot = "serving"
    /\ AsideIdle

NextSys == (\E i \in SysReqs : WebStep(i)) \/ WatcherStep

\* the web process and the watcher process side by side
SpecSys == InitSys /\ [][NextSys]_vars

----------------------------------------------------------------------------
(* The two JSON stores called one call at a time: load_pipeline_status,     *)
(* set_pipeline_status, reset_stale_statuses, _load_history and             *)
(* add_history_entry on files of every kind                                 *)

\* calls made on the stores in one behaviour
MaxCalls == 3

\* a history that earlier lifetimes left: n entries, newest first
OldHistory(n) ==
    [k \in 1..n |-> [filename |-> LocalFilename(ProviderName("r1")),
                     status |-> "success", message |-> "", timestamp |-> 0 - k]]

\* a status store that an interrupted run left
StaleStore == [EmptyStore EXCEPT !["r1"] =
                  [status |-> "analyzing", updated |-> 0,
                   filename |-> LocalFilename(ProviderName("r1"))]]

StoresFrame ==
    UNCHANGED <<lockHolder, req, wk, watchInput, archiveDir, transcripts, gdrive,
                wt, wtEvents, PROCESSED, boot, plaud, doc, drive, loop, naming>>

\* a call of load_pipeline_status
CallLoadStatus ==
    /\ now < MaxCalls
    /\ now' = now + 1
    /\ call' = [fn |-> "load_pipeline_status",
                outcome |-> IF LoadOutcome(storeKind.status) = "raise"
                            THEN "raised" ELSE "returned",
                loaded |-> LoadOutcome(storeKind.status)]
    /\ UNCHANGED <<statusFile, history, storeKind>>
    /\ StoresFrame

\* a call of set_pipeline_status(file_id, status): lines 51-60.  A value
\* that is not a mapping has no .get
CallSetStatus(file_id, status) ==
    /\ now < MaxCalls
    /\ now' = now + 1
    /\ IF LoadOutcome(storeKind.status) \in {"raise", "alien"}
       THEN /\ call' = [fn |-> "set_pipeline_status", outcome |-> "raised",
                        loaded |-> LoadOutcome(storeKind.status)]
            /\ UNCHANGED <<statusFile, storeKind>>
       ELSE /\ statusFile' = UpdatedStore(load_pipeline_status, file_id, status, NoFilename)
            /\ storeKind' = [storeKind EXCEPT !.status = "json"]
            /\ call' = [fn |-> "set_pipeline_status", outcome |-> "returned",
                        loaded |-> LoadOutcome(storeKind.status)]
    /\ UNCHANGED history
    /\ StoresFrame

\* a call of _load_history
CallLoadHistory ==
    /\ now < MaxCalls
    /\ now' = now + 1
    /\ call' = [fn |-> "_load_history",
                outcome |-> IF LoadOutcome(storeKind.history) = "raise"
                            THEN "raised" ELSE "returned",
                loaded |-> LoadOutcome(storeKind.history)]
    /\ UNCHANGED <<statusFile, history, storeKind>>
    /\ StoresFrame

\* a call of add_history_entry(filename, status, message): lines 48-62.  A
\* value that is not a list has no .insert
CallAddHistory(filename, status, message) ==
    /\ now < MaxCalls
    /\ now' = now + 1
    /\ IF LoadOutcome(storeKind.history) \in {"raise", "alien"}
       THEN /\ call' = [fn |-> "add_history_entry", outcome |-> "raised",
                        loaded |-> LoadOutcome(storeKind.history)]
            /\ UNCHANGED <<history, storeKind>>
       ELSE /\ history' = HistoryWith(_load_history, filename, status, message)
            /\ storeKind' = [storeKind EXCEPT !.history = "json"]
            /\ call' = [fn |-> "add_history_entry", outcome |-> "returned",
                        loaded |-> LoadOutcome(storeKind.history)]
    /\ UNCHANGED statusFile
    /\ StoresFrame

InitStores ==
    /\ storeKind \in [status : StoreKinds, history : StoreKinds]
    /\ statusFile \in IF storeKind.status = "json" THEN {EmptyStore, StaleStore}
                      ELSE {EmptyStore}
    /\ history \in IF storeKind.history = "json"
                   THEN {OldHistory(0), OldHistory(MAX_HISTORY - 1), OldHistory(MAX_HISTORY)}
                   ELSE {<<>>}
    /\ call = NoCall
    /\ loop = NoLoop
    /\ naming = NoNaming
    /\ plaud = NoPlaud
    /\ doc = NoDoc
    /\ drive = NoDrive
    /\ watchInput = {}
    /\ archiveDir = {}
    /\ transcripts = {}
    /\ lockHolder = 0
    /\ req = [i \in Reqs |-> IdleReq]
    /\ wk = [i \in Reqs |-> NoWorker]
    /\ gdrive = {}
    /\ now = 0
    /\ wt = IdleWatcher
    /\ wtEvents = {}
    /\ PROCESSED = {}
    /\ boot = "booting"

NextStores ==
    \/ reset_stale_statuses
    \/ CallLoadStatus
    \/ \E file_id \in RecIds : CallSetStatus(file_id, "queued")
    \/ CallLoadHistory
    \/ \E status \in {"success", "error"} :
          CallAddHistory(LocalFilename(ProviderName("r2")), status,
                         IF status = "error" THEN "Download failed" ELSE "")

SpecStores == InitStores /\ [][NextStores]_vars

----------------------------------------------------------------------------
(* The recording source gateway: plaud_client.py PlaudClient against a      *)
(* server whose endpoints answer with data, an error or a region redirect   *)

\* redirects one call follows before the model stops following
MaxRedirects == 3

Endpoints == {"api-euc1", "api"}

\* what an endpoint answers: the requested data, an HTTP or network error,
\* status -302 naming another endpoint, or status -302 naming none
Answers ==
    [kind : {"data", "error"}, api : {""}] \cup
    [kind : {"redirect"}, api : Endpoints \cup {""}]

PlaudFunctions == {"list_recordings", "test_connection", "download_recording"}

\* _handle_region_redirect: the new base URL, "none" for None
_handle_region_redirect(answer) ==
    IF answer.kind = "redirect" /\ answer.api # "" THEN answer.api ELSE "none"

PlaudFrame ==
    UNCHANGED <<statusFile, lockHolder, req, wk, watchInput, archiveDir, transcripts,
                history, gdrive, now, wt, wtEvents, PROCESSED, boot,
                storeKind, call, doc, drive, loop, naming>>

\* a caller enters one of the gateway's functions
PlaudCall(fn) ==
    /\ plaud.pc \in {"idle", "returned"}
    /\ plaud' = [plaud EXCEPT !.pc = "calling", !.fn = fn, !.retries = 0,
                              !.result = "none"]
    /\ PlaudFrame

\* the request is answered: list_recordings lines 91-110, test_connection
\* lines 54-84, download_recording lines 114-125
PlaudAnswer ==
    /\ plaud.pc = "calling"
    /\ LET answer == plaud.server[plaud.base_url]
           new_url == _handle_region_redirect(answer)
           Return(result) == plaud' = [plaud EXCEPT !.pc = "returned", !.result = result]
       IN  IF answer.kind = "error" THEN Return("failed")
           ELSE IF plaud.fn = "download_recording"
                THEN Return(IF answer.kind = "data" THEN "data" ELSE "redirect_as_data")
           ELSE IF new_url # "none"
                THEN /\ plaud.retries < MaxRedirects
                     /\ plaud' = [plaud EXCEPT !.base_url = new_url, !.retries = @ + 1]
           ELSE IF answer.kind = "data" THEN Return("data")
           ELSE IF plaud.fn = "list_recordings" THEN Return("empty_list")
           ELSE Return("failed")
    /\ PlaudFrame

InitPlaud ==
    /\ plaud \in [pc : {"idle"}, fn : {"none"}, base_url : Endpoints, retries : {0},
                  result : {"none"}, server : [Endpoints -> Answers]]
    /\ storeKind = JsonStores
    /\ call = NoCall
    /\ loop = NoLoop
    /\ naming = NoNaming
    /\ doc = NoDoc
    /\ drive = NoDrive
    /\ statusFile = EmptyStore
    /\ watchInput = {}
    /\ archiveDir = {}
    /\ transcripts = {}
    /\ lockHolder = 0
    /\ req = [i \in Reqs |-> IdleReq]
    /\ wk = [i \in Reqs |-> NoWorker]
    /\ history = <<>>
    /\ gdrive = {}
    /\ now = 1
    /\ wt = IdleWatcher
    /\ wtEvents = {}
    /\ PROCESSED = {}
    /\ boot = "serving"

NextPlaud ==
    \/ \E fn \in PlaudFunctions : PlaudCall(fn)
    \/ PlaudAnswer

SpecPlaud == InitPlaud /\ [][NextPlaud]_vars

----------------------------------------------------------------------------
(* doc_writer.py: the file name made of a document title *)

\* characters of a title before and after its long middle part
TitleHeadLen == 2
TitleTailLen == 1

\* safe[:200]
MaxFilenameLen == 200

\* the character class of re.sub(r'[<>:"/\\|?*]', "", title)
UnsafeChars == {"<", ">", ":", "\"", "/", "\\", "|", "?", "*"}

Untitled == <<"u", "n", "t", "i", "t", "l", "e", "d">>

\* str.strip(chars): leading and trailing characters of the set removed
StripChars(s, chars) ==
    LET keep == {k \in 1..Len(s) : s[k] \notin chars}
    IN  IF keep = {} THEN <<>>
        ELSE SubSeq(s, CHOOSE k \in keep : \A j \in keep : k <= j,
                       CHOOSE k \in keep : \A j \in keep : k >= j)

WrongDocSanitize(title) ==
    StripChars(SelectSeq(title, LAMBDA c : c \notin UnsafeChars), {".", " "})

\* doc_writer._sanitize_filename
doc_writer_sanitize_filename(title) ==
    LET safe == StripChars(SelectSeq(title, LAMBDA c : c \notin UnsafeChars), {".", " "})
    IN  IF safe = <<>> THEN Untitled
        ELSE SubSeq(safe, 1, IF Len(safe) < MaxFilenameLen THEN Len(safe)
                             ELSE MaxFilenameLen)

\* the titles tried: a few characters, a middle part of letters that is
\* absent or about as long as the limit, a few characters
TitleChars == {"a", "/", ".", " ", "*"}

SeqsUpTo(S, n) == UNION {[1..k -> S] : k \in 0..n}

MiddleLens == {0, MaxFilenameLen - 1, MaxFilenameLen, MaxFilenameLen + 1}

Titles ==
    {head \o [k \in 1..n |-> "a"] \o tail :
        head \in SeqsUpTo(TitleChars, TitleHeadLen),
        n \in MiddleLens,
        tail \in SeqsUpTo(TitleChars, TitleTailLen)}

\* create_document line 147: safe_title = _sanitize_filename(title)
DocSanitize ==
    /\ doc.pc = "title"
    /\ doc' = [doc EXCEPT !.pc = "named", !.safe = doc_writer_sanitize_filename(doc.title)]
    /\ UNCHANGED <<statusFile, lockHolder, req, wk, watchInput, archiveDir, transcripts,
                   history, gdrive, now, wt, wtEvents, PROCESSED, boot,
                   storeKind, call, plaud, drive, loop, naming>>

InitDoc ==
    /\ doc \in [pc : {"title"}, title : Titles, safe : {<<>>}]
    /\ storeKind = JsonStores
    /\ call = NoCall
    /\ loop = NoLoop
    /\ naming = NoNaming
    /\ plaud = NoPlaud
    /\ drive = NoDrive
    /\ statusFile = EmptyStore
    /\ watchInput = {}
    /\ archiveDir = {}
    /\ transcripts = {}
    /\ lockHolder = 0
    /\ req = [i \in Reqs |-> IdleReq]
    /\ wk = [i \in Reqs |-> NoWorker]
    /\ history = <<>>
    /\ gdrive = {}
    /\ now = 1
    /\ wt = IdleWatcher
    /\ wtEvents = {}
    /\ PROCESSED = {}
    /\ boot = "serving"

NextDoc == DocSanitize

SpecDoc == InitDoc /\ [][NextDoc]_vars

----------------------------------------------------------------------------
(* The cloud storage gateway: gdrive_client.py GDriveClient.upload_file     *)

\* upload_file calls made in one behaviour
MaxUploads == 3

\* identifiers of the files Drive held before the first call
OldFileId == 100

DriveNames == {<<"a">>, <<"a", "'">>, <<"A">>}

DriveFolders == {"recordings", "documents"}

\* filename.replace("'", "\\'")
RECURSIVE EscapeQuotes(_)
EscapeQuotes(s) ==
    IF s = <<>> THEN <<>>
    ELSE (IF Head(s) = "'" THEN <<"\\", "'">> ELSE <<Head(s)>>) \o EscapeQuotes(Tail(s))

\* the name Drive reads from the quoted literal of the query
RECURSIVE QueryLiteral(_)
QueryLiteral(q) ==
    IF q = <<>> THEN <<>>
    ELSE IF Head(q) = "\\" /\ Len(q) >= 2
         THEN <<q[2]>> \o QueryLiteral(Tail(Tail(q)))
         ELSE <<Head(q)>> \o QueryLiteral(Tail(q))

WrongFileExists(files, filename, folder_id) == {}

\* file_exists: the identifiers the query can return (pageSize=1 takes one)
file_exists(files, filename, folder_id) ==
    {f.id : f \in {g \in files : /\ g.name = QueryLiteral(EscapeQuotes(filename))
                                 /\ g.folder = folder_id
                                 /\ ~g.trashed}}

\* upload_file(local_path, folder_id, filename)
upload_file(filename, folder_id) ==
    /\ drive.calls < MaxUploads
    /\ LET found == file_exists(drive.files, filename, folder_id)
           new_id == Cardinality({f \in drive.files : f.id < OldFileId}) + 1
       IN  \/ /\ found # {}
              /\ \E existing_id \in found :
                    drive' = [drive EXCEPT !.filename = filename, !.folder_id = folder_id,
                                           !.outcome = "returned", !.created = FALSE,
                                           !.result = existing_id, !.calls = @ + 1]
           \/ /\ found = {}
              /\ drive' = [drive EXCEPT
                              !.files = @ \cup {[id |-> new_id, name |-> filename,
                                                 folder |-> folder_id, trashed |-> FALSE]},
                              !.filename = filename, !.folder_id = folder_id,
                              !.outcome = "returned", !.created = TRUE,
                              !.result = new_id, !.calls = @ + 1]
           \/ drive' = [drive EXCEPT !.filename = filename, !.folder_id = folder_id,
                                     !.outcome = "raised", !.created = FALSE,
                                     !.result = 0, !.calls = @ + 1]   \* the API raises
    /\ UNCHANGED <<statusFile, lockHolder, req, wk, watchInput, archiveDir, transcripts,
                   history, gdrive, now, wt, wtEvents, PROCESSED, boot,
                   storeKind, call, plaud, doc, loop, naming>>

\* what Drive holds before the first call: nothing, or one file
OldFiles ==
    {{}} \cup
    {{[id |-> OldFileId, name |-> n, folder |-> d, trashed |-> t]} :
        n \in {<<"a">>, <<"A">>}, d \in DriveFolders, t \in BOOLEAN}

InitDrive ==
    /\ drive \in [files : OldFiles, filename : {<<>>}, folder_id : {"none"},
                  outcome : {"none"}, created : {FALSE}, result : {0}, calls : {0}]
    /\ storeKind = JsonStores
    /\ call = NoCall
    /\ loop = NoLoop
    /\ naming = NoNaming
    /\ plaud = NoPlaud
    /\ doc = NoDoc
    /\ statusFile = EmptyStore
    /\ watchInput = {}
    /\ archiveDir = {}
    /\ transcripts = {}
    /\ lockHolder = 0
    /\ req = [i \in Reqs |-> IdleReq]
    /\ wk = [i \in Reqs |-> NoWorker]
    /\ history = <<>>
    /\ gdrive = {}
    /\ now = 1
    /\ wt = IdleWatcher
    /\ wtEvents = {}
    /\ PROCESSED = {}
    /\ boot = "serving"

NextDrive == \E filename \in DriveNames, folder_id \in DriveFolders :
                 upload_file(filename, folder_id)

SpecDrive == InitDrive /\ [][NextDrive]_vars

----------------------------------------------------------------------------
(* The tool-use loop of create_document_via_claude                         *)

\* tool_use responses handled in one run
MaxLoopRounds == 2
\* content blocks in one response
MaxBlocks == 2

MAX_TITLE_LENGTH == 200

DotDocx == <<".", "d", "o", "c", "x">>

LoopTimestamps == {<<>>, <<"2", "0">>}

NoInput == [has_title |-> FALSE, title |-> <<>>]

\* what a response's content block can be, before the API gives it an id
BlockKinds ==
    {[type |-> "text", name |-> "", input |-> NoInput]}
    \cup {[type |-> "tool_use", name |-> "create_document",
           input |-> [has_title |-> TRUE, title |-> t]] : t \in {<<"a">>, <<"b">>}}
    \cup {[type |-> "tool_use", name |-> n, input |-> NoInput] :
            n \in {"create_document", "list_documents", "delete_document"}}

StopReasons == {"end_turn", "tool_use", "max_tokens"}

\* the id of the k-th block of the response to the n-th request
BlockId(n, k) == 10 * n + k

\* a response whose stop reason is not tool_use carries text only
ContentsFor(sr) ==
    SeqsUpTo(IF sr = "tool_use" THEN BlockKinds
             ELSE {b \in BlockKinds : b.type = "text"}, MaxBlocks)

Responses(n) ==
    UNION {{[stop_reason |-> sr,
             content |-> [k \in 1..Len(c) |->
                             [type |-> c[k].type,
                              id |-> IF c[k].type = "tool_use" THEN BlockId(n, k) ELSE 0,
                              name |-> c[k].name,
                              input |-> c[k].input]]] :
               c \in ContentsFor(sr)} : sr \in StopReasons}

\* title[:MAX_TITLE_LENGTH]
Truncated(title, n) == SubSeq(title, 1, IF Len(title) < n THEN Len(title) ELSE n)

\* create_document's file name, lines 147-151
DocFilename(title, timestamp) ==
    LET safe_title == doc_writer_sanitize_filename(title)
    IN  IF timestamp # <<>>
        THEN safe_title \o <<"_">> \o timestamp \o DotDocx
        ELSE safe_title \o DotDocx

\* handle_tool_call on the output directory `files`: whether it raised, what
\* it returned, the directory afterwards and the documents it saved
handle_tool_call(tool_name, tool_input, files, timestamp) ==
    IF tool_name = "create_document"
    THEN IF ~tool_input.has_title
         THEN [raised |-> TRUE, result |-> [kind |-> "none", filename |-> <<>>, files |-> {}],
               files |-> files, saved |-> 0]
         ELSE LET filename == DocFilename(Truncated(tool_input.title, MAX_TITLE_LENGTH),
                                          timestamp)
              IN  [raised |-> FALSE,
                   result |-> [kind |-> "document", filename |-> filename, files |-> {}],
                   files |-> files \cup {filename}, saved |-> 1]
    ELSE IF tool_name = "list_documents"
    THEN [raised |-> FALSE, result |-> [kind |-> "files", filename |-> <<>>, files |-> files],
          files |-> files, saved |-> 0]
    ELSE [raised |-> FALSE, result |-> [kind |-> "error", filename |-> <<>>, files |-> {}],
          files |-> files, saved |-> 0]

WrongToolResult(block, result) ==
    [type |-> "tool_result", tool_use_id |-> 0, content |-> result]

\* the entry appended to tool_results, lines 227-231
ToolResult(block, result) ==
    [type |-> "tool_result", tool_use_id |-> block.id, content |-> result]

\* the for loop over response.content from its k-th block on, lines 224-231
RECURSIVE RunTools(_, _, _, _)
RunTools(content, k, timestamp, st) ==
    IF k > Len(content) \/ st.raised
    THEN st
    ELSE LET block == content[k]
         IN  IF block.type # "tool_use"
             THEN RunTools(content, k + 1, timestamp, st)
             ELSE LET out == handle_tool_call(block.name, block.input, st.files, timestamp)
                  IN  RunTools(content, k + 1, timestamp,
                               [raised |-> out.raised,
                                files |-> out.files,
                                handled |-> st.handled + out.saved,
                                tool_results |->
                                    IF out.raised THEN st.tool_results
                                    ELSE Append(st.tool_results,
                                                ToolResult(block, out.result))])

LoopFrame ==
    UNCHANGED <<statusFile, lockHolder, req, wk, watchInput, archiveDir, transcripts,
                history, gdrive, now, wt, wtEvents, PROCESSED, boot,
                storeKind, call, plaud, doc, drive, naming>>

\* client.messages.create raises (network, authentication, rate limit)
RequestRaises ==
    /\ loop.pc = "request"
    /\ loop' = [loop EXCEPT !.pc = "raised", !.error = "api", !.response = NoResponse]
    /\ LoopFrame

\* one pass of `while True`: the request, and the handling of its response
Iterate(response) ==
    /\ loop.pc = "request"
    /\ response.stop_reason = "tool_use" => loop.rounds < MaxLoopRounds
    /\ loop' =
         IF response.stop_reason = "end_turn"
         THEN [loop EXCEPT !.pc = "done", !.response = response]
         ELSE IF response.stop_reason = "tool_use"
         THEN LET st == RunTools(response.content, 1, loop.timestamp,
                                 [raised |-> FALSE, files |-> loop.files,
                                  handled |-> loop.handled, tool_results |-> <<>>])
              IN  IF st.raised
                  THEN [loop EXCEPT !.pc = "raised", !.error = "handler",
                                    !.response = response,
                                    !.files = st.files, !.handled = st.handled]
                  ELSE [loop EXCEPT !.response = response,
                                    !.rounds = @ + 1,
                                    !.files = st.files, !.handled = st.handled,
                                    !.messages =
                                        @ \o <<[role |-> "assistant",
                                                content |-> response.content],
                                               [role |-> "user",
                                                content |-> st.tool_results]>>]
         ELSE [loop EXCEPT !.pc = "raised", !.error = "stop_reason",
                           !.response = response]
    /\ LoopFrame

\* messages as lines 198-208 build it: the prompt with the transcript
FirstMessages ==
    <<[role |-> "user",
       content |-> <<[type |-> "text", id |-> 0, name |-> "", input |-> NoInput]>>]>>

InitLoop ==
    /\ loop \in [pc : {"request"}, messages : {FirstMessages}, files : {{}},
                 handled : {0}, rounds : {0}, timestamp : LoopTimestamps,
                 response : {NoResponse}, error : {"none"}]
    /\ storeKind = JsonStores
    /\ call = NoCall
    /\ plaud = NoPlaud
    /\ doc = NoDoc
    /\ drive = NoDrive
    /\ naming = NoNaming
    /\ statusFile = EmptyStore
    /\ watchInput = {}
    /\ archiveDir = {}
    /\ transcripts = {}
    /\ lockHolder = 0
    /\ req = [i \in Reqs |-> IdleReq]
    /\ wk = [i \in Reqs |-> NoWorker]
    /\ history = <<>>
    /\ gdrive = {}
    /\ now = 1
    /\ wt = IdleWatcher
    /\ wtEvents = {}
    /\ PROCESSED = {}
    /\ boot = "serving"

NextLoop ==
    \/ RequestRaises
    \/ \E response \in Responses(loop.rounds + 1) : Iterate(response)

SpecLoop == InitLoop /\ [][NextLoop]_vars

----------------------------------------------------------------------------
(* The local file name of a recording, as the stage runner derives it and   *)
(* as the recordings list and the delete endpoints derive it                *)

\* characters of a provider name before and after its extension
NameHeadLen == 2
NameTailLen == 1

NameChars == {"a", " ", "/", "?"}

NameExtensions == {<<>>, DotMp3, <<".", "W", "A", "V">>}

RawNames ==
    {head \o ext \o tail :
        head \in SeqsUpTo(NameChars, NameHeadLen),
        ext \in NameExtensions,
        tail \in SeqsUpTo(NameChars, NameTailLen)}

\* recordings_list lines 210-212, delete_recording_audio lines 314-316,
\* delete_recording_documents lines 352-354
ListedFilename(raw_name) ==
    LET safe_name == _sanitize_filename(raw_name)
    IN  IF HasAudioExtension(safe_name) THEN safe_name ELSE safe_name \o DotMp3

\* the stage runner and the list each derive the local name of one recording
DeriveNames ==
    /\ naming.pc = "raw"
    /\ naming' = [naming EXCEPT !.pc = "derived",
                                !.filename = LocalFilename(naming.raw_filename),
                                !.safe_name = ListedFilename(naming.raw_filename)]
    /\ UNCHANGED <<statusFile, lockHolder, req, wk, watchInput, archiveDir, transcripts,
                   history, gdrive, now, wt, wtEvents, PROCESSED, boot,
                   storeKind, call, plaud, doc, drive, loop>>

InitNames ==
    /\ naming \in [pc : {"raw"}, raw_filename : RawNames, filename : {<<>>},
                   safe_name : {<<>>}]
    /\ storeKind = JsonStores
    /\ call = NoCall
    /\ plaud = NoPlaud
    /\ doc = NoDoc
    /\ drive = NoDrive
    /\ loop = NoLoop
    /\ statusFile = EmptyStore
    /\ watchInput = {}
    /\ archiveDir = {}
    /\ transcripts = {}
    /\ lockHolder = 0
    /\ req = [i \in Reqs |-> IdleReq]
    /\ wk = [i \in Reqs |-> NoWorker]
    /\ history = <<>>
    /\ gdrive = {}
    /\ now = 1
    /\ wt = IdleWatcher
    /\ wtEvents = {}
    /\ PROCESSED = {}
    /\ boot = "serving"

NextNames == DeriveNames

SpecNames == InitNames /\ [][NextNames]_vars

----------------------------------------------------------------------------
(* Claims *)

\* the statuses the specification calls active
ActiveNames ==
    {"queued", "downloading", "uploading_recording", "transcribing", "analyzing"}

TerminalNames == {"processed", "error"}

ActiveIds == {id \in RecIds : statusFile[id].status \in ActiveNames}

\* C1: at every instant at most one recording of the status store has an
\* active status.
C1_AtMostOneActive == Cardinality(ActiveIds) <= 1

StageRank(status) ==
    CASE status = "queued" -> 1
      [] status = "downloading" -> 2
      [] status = "uploading_recording" -> 3
      [] status = "transcribing" -> 4
      [] status = "analyzing" -> 5
      [] status = "processed" -> 6
      [] status = "error" -> 7
      [] OTHER -> 0

\* a step in which run i's set_pipeline_status call writes the store
Wrote(i) ==
    /\ wk[i].pc \in DOMAIN SetSites
    /\ wk[i].loaded
    /\ wk'[i].pc = SetSites[wk[i].pc].next

\* the statuses one run writes only move forward or jump to error, and
\* nothing follows a terminal status
C2_ForwardStep ==
    \A i \in Reqs :
        Wrote(i) => /\ wk[i].last \notin TerminalNames
                    /\ StageRank(wk'[i].last) > StageRank(wk[i].last)

\* C2: the statuses written during one run only move forward through queued,
\* downloading, uploading_recording, transcribing, analyzing, processed, or
\* jump to error from a non-terminal status; nothing is written after a
\* terminal status; and a run that has ended has written processed or error.
C2_ForwardAndTerminal ==
    [][ /\ C2_ForwardStep
        /\ \A i \in Reqs : wk'[i].pc \in {"done", "crashed"}
                              => wk'[i].last \in TerminalNames ]_vars

\* the part of C2 that the code keeps: the order of the writes
C2_ForwardOnly == [][C2_ForwardStep]_vars

\* C3: a trigger whose status check finds the target's status active, or
\* whose gate check finds the gate held, is answered 409, and that step
\* writes no status and starts no worker: the store is as it was.
C3_BusyRejected ==
    [][ \A i \in Reqs :
          ( \/ /\ req[i].pc = "idle"
               /\ req'[i].pc # "idle"
               /\ statusFile[req'[i].id].status \in ActiveNames
            \/ /\ req[i].pc = "check_lock"
               /\ req'[i].pc # "check_lock"
               /\ lockHolder # 0 )
          => /\ req'[i].pc = "done"
             /\ req'[i].resp = 409
             /\ statusFile' = statusFile
             /\ wk' = wk ]_vars

\* a request refused at the gate check while another recording's run holds
\* the gate, and one refused at the status check
C3_Witness ==
    /\ lockHolder # 0
    /\ \E i \in Reqs : /\ req[i].resp = 409
                       /\ wk[i].pc = "none"
                       /\ req[i].id # req[lockHolder].id
                       /\ statusFile[req[i].id].status \notin ActiveNames

\* C4: no two executions of process_plaud_recording overlap in the web
\* process.
C4_NoOverlap == Cardinality({i \in Reqs : wk[i].pc \in InPipeline}) <= 1

\* two accepted triggers: one run is inside the pipeline, the other thread
\* waits at the lock
C4_Witness ==
    \E i, j \in Reqs : wk[i].pc \in InPipeline /\ wk[j].pc = "start"

\* C5: a run of the file watcher never executes while a run of the web
\* trigger does.
C5_OneRunSystemWide ==
    ~(wt.pc \in InAudioFile /\ \E i \in Reqs : wk[i].pc \in InPipeline)

\* C6: after reset_stale_statuses every entry that was active is error, no
\* entry is active, and every other entry is unchanged in all its fields.
C6_Recovery ==
    [][ (boot = "booting" /\ boot' = "serving")
          => \A id \in RecIds :
                /\ statusFile[id].status \in ActiveNames
                      => statusFile'[id].status = "error"
                /\ statusFile'[id].status \notin ActiveNames
                /\ statusFile[id].status \notin ActiveNames
                      => statusFile'[id] = statusFile[id] ]_vars

\* recovery has rewritten one entry (its time is the startup's) and has left
\* a processed entry of an earlier time beside it
C6_Witness ==
    /\ boot = "serving"
    /\ \E a, b \in RecIds :
          /\ statusFile[a].status = "error" /\ statusFile[a].updated = now
          /\ statusFile[b].status = "processed" /\ statusFile[b].updated < now

\* C7: no exception propagates out of a worker thread.
C7_NothingPropagates == \A i \in Reqs : wk[i].pc # "crashed"

\* C8: a run writes processed only if its analyzing stage created at least
\* one document.
C8_ProcessedHasDocument ==
    \A i \in Reqs : wk[i].pc = "hist_success" => wk[i].created >= 1

\* the transcript files written for exactly this base name
OwnTranscripts(base_name) ==
    {f \in transcripts : \E t \in 0..2 : f.name = TranscriptName(base_name, Timestamp(t))}

\* C9: when a transcript file exists for the recording's base name, the run
\* goes on to analyzing with that file's content, without the transcribing
\* status, without the engine, and without rewriting the file.
C9_CachedTranscript ==
    [][ \A i \in Reqs :
          /\ ( /\ wk[i].pc = "find"
               /\ wk'[i].pc # "find"
               /\ OwnTranscripts(SplitextRoot(wk[i].filename)) # {} )
             => /\ wk'[i].pc = "set_analyzing"
                /\ wk'[i].transcript \in
                      {f.content : f \in OwnTranscripts(SplitextRoot(wk[i].filename))}
                /\ transcripts' = transcripts
          /\ wk'[i].reused
             => /\ ~wk'[i].engine
                /\ wk'[i].last # "transcribing"
                /\ wk'[i].pc \notin {"set_transcribing", "transcribe", "save_transcript"}
                /\ transcripts' = transcripts ]_vars

\* C10: whatever the cloud upload of the recording does, the run goes on to
\* the transcript stage, and nothing but Drive differs between the outcomes.
C10_UploadNeverFails ==
    [][ \A i \in Reqs :
          (wk[i].pc = "upload" /\ wk'[i] # wk[i])
          => /\ wk'[i] = [wk[i] EXCEPT !.pc = "find"]
             /\ UNCHANGED <<statusFile, lockHolder, req, watchInput, archiveDir,
                            transcripts, history>> ]_vars

\* a run whose recording did not reach Drive has written processed
C10_Witness ==
    \E i \in Reqs : wk[i].pc = "hist_success" /\ wk[i].filename \notin gdrive

\* the part of C11 that the code keeps: processed is written only with the
\* audio in the archive directory and gone from the download directory, and
\* a failed rename moves nothing
C11_ProcessedAfterRename ==
    [][ \A i \in Reqs :
          /\ (Wrote(i) /\ wk'[i].last = "processed")
                => /\ Exists(archiveDir, wk[i].filename)
                   /\ ~Exists(watchInput, wk[i].filename)
          /\ (wk[i].pc = "archive" /\ wk'[i].exc = "rename failed")
                => /\ Exists(watchInput', wk[i].filename)
                   /\ watchInput' = watchInput
                   /\ archiveDir' = archiveDir ]_vars

\* C11: processed is written for a recording only after its audio file was
\* renamed from the download directory into the archive directory; a run
\* whose rename failed ends with status error, the audio still where it was.
C11_RenameThenProcessed ==
    [][ \A i \in Reqs :
          /\ (Wrote(i) /\ wk'[i].last = "processed")
                => /\ Exists(archiveDir, wk[i].filename)
                   /\ ~Exists(watchInput, wk[i].filename)
          /\ (wk[i].exc = "rename failed" /\ wk'[i].pc \in {"done", "crashed"})
                => /\ wk'[i].last = "error"
                   /\ Exists(watchInput, wk[i].filename) ]_vars

\* C12: an audio file in the archive directory belongs to a recording whose
\* status is processed.
C12_ArchivedImpliesProcessed ==
    \A f \in archiveDir :
        \E id \in RecIds : /\ statusFile[id] # NoEntry
                           /\ statusFile[id].filename = f.name
                           /\ statusFile[id].status = "processed"

\* C13: a trigger is accepted (queued written, worker started) only when the
\* recording's status at that moment is new, error or processed; a status
\* check that finds any other status refuses the trigger.
C13_AcceptedOnlyWhenIdle ==
    [][ \A i \in Reqs :
          /\ (req[i].pc = "queue_write" /\ wk'[i].pc = "start")
                => statusFile[req[i].id].status \in {"new", "error", "processed"}
          /\ ( /\ req[i].pc = "idle" /\ req'[i].pc # "idle"
               /\ statusFile[req'[i].id].status \notin {"new", "error", "processed"} )
                => req'[i].pc = "done" /\ wk' = wk ]_vars

\* C14: a failed download touches no file at the local download path, and
\* the run then writes error and performs no later stage.
C14_DownloadFailureClean ==
    [][ \A i \in Reqs :
          /\ (wk[i].pc = "download" /\ wk'[i].pc = "set_dl_error")
                => watchInput' = watchInput
          /\ wk[i].pc \in {"set_dl_error", "hist_dl_error"}
                => /\ wk'[i].pc \in {"set_dl_error", "hist_dl_error", "set_error", "done"}
                   /\ UNCHANGED <<watchInput, archiveDir, transcripts, gdrive>> ]_vars

\* C15: the end of a run that wrote a terminal status appends exactly one
\* History Entry for the run's filename: success for processed, error with a
\* message for error.
C15_HistoryPerTerminal ==
    [][ \A i \in Reqs :
          (wk[i].pc \in {"hist_dl_error", "hist_success", "hist_error"}
             /\ wk'[i].pc = "done")
          => /\ Len(history') = Len(history) + 1
             /\ SubSeq(history', 2, Len(history')) = history
             /\ history'[1].filename = wk[i].filename
             /\ history'[1].status = IF wk[i].last = "processed" THEN "success" ELSE "error"
             /\ wk[i].last = "error" => history'[1].message # "" ]_vars

\* C16: after any add_history_entry call the history holds at most
\* MAX_HISTORY entries, newest first: the new entry, then the entries it
\* held before, the oldest dropped once there would be more than MAX_HISTORY.
C16_HistoryBounded ==
    [][ (call'.fn = "add_history_entry" /\ call'.outcome = "returned" /\ now' # now)
        => LET old == _load_history
           IN  /\ Len(history') <= MAX_HISTORY
               /\ Len(history') = IF Len(old) < MAX_HISTORY THEN Len(old) + 1
                                  ELSE MAX_HISTORY
               /\ history'[1].timestamp = now
               /\ \A k \in 2..Len(history') : history'[k] = old[k - 1]
               /\ \A k \in 1..(Len(history') - 1) :
                     history'[k].timestamp > history'[k + 1].timestamp ]_vars

\* a full history that has taken a new entry and lost its oldest one
C16_Witness ==
    /\ call.fn = "add_history_entry"
    /\ call.outcome = "returned"
    /\ Len(history) = MAX_HISTORY
    /\ history[1].timestamp >= 0
    /\ history[MAX_HISTORY].timestamp > 0 - MAX_HISTORY

\* C17: no call of load_pipeline_status, set_pipeline_status,
\* reset_stale_statuses, _load_history or add_history_entry raises because of
\* what the file holds; a file that is absent or malformed is read as the
\* empty store, and a write leaves a well-formed file.
C17_CorruptIsEmpty ==
    [][ /\ now' # now
           => /\ call'.outcome = "returned"
              /\ (call'.loaded # "value") => (call'.loaded = "empty")
              /\ call'.fn = "set_pipeline_status" => storeKind'.status = "json"
              /\ call'.fn = "add_history_entry" => storeKind'.history = "json"
        /\ (boot = "booting" /\ boot' = "failed")
           => LoadOutcome(storeKind.status) \in {"empty", "value"} ]_vars

\* C18: a gateway call that receives a region redirect retries once and no
\* more, and a redirect response is never written or returned as the data.
C18_RedirectOnce ==
    /\ plaud.retries <= 1
    /\ plaud.result # "redirect_as_data"

\* C19: the name doc_writer._sanitize_filename makes of a title holds none
\* of the characters < > : " / \ | ? *, is at most 200 characters long and
\* is not empty; a title of only unsafe characters, dots and spaces gives
\* `untitled`.
C19_SafeName ==
    doc.pc = "named"
    => /\ \A k \in 1..Len(doc.safe) : doc.safe[k] \notin UnsafeChars
       /\ Len(doc.safe) <= MaxFilenameLen
       /\ doc.safe # <<>>
       /\ (\A k \in 1..Len(doc.title) : doc.title[k] \in UnsafeChars \cup {".", " "})
             => doc.safe = Untitled

\* a title longer than the limit, with unsafe characters, cut to the limit
C19_Witness ==
    /\ doc.pc = "named"
    /\ Len(doc.title) > MaxFilenameLen + 1
    /\ \E k \in 1..Len(doc.title) : doc.title[k] \in UnsafeChars
    /\ Len(doc.safe) = MaxFilenameLen

\* the files of Drive that are not trashed and have this name in this folder
SameNamed(files, name, folder) ==
    {f \in files : f.name = name /\ f.folder = folder /\ ~f.trashed}

\* C20: an upload_file call that finds a file of exactly that name in the
\* folder uploads nothing and returns that file's identifier; a call that
\* finds none creates exactly one file and returns its identifier; no name
\* is ever twice in a folder.
C20_UploadIdempotent ==
    [][ drive'.calls # drive.calls
        => /\ drive'.outcome = "raised" => drive'.files = drive.files
           /\ drive'.outcome = "returned"
              => LET before == SameNamed(drive.files, drive'.filename, drive'.folder_id)
                     after == SameNamed(drive'.files, drive'.filename, drive'.folder_id)
                 IN  /\ drive'.result \in {f.id : f \in after}
                     /\ Cardinality(after) = 1
                     /\ before # {} => drive'.files = drive.files
                     /\ before = {} => /\ drive.files \subseteq drive'.files
                                       /\ drive'.files \ drive.files = after
           /\ \A n \in DriveNames, d \in DriveFolders :
                 Cardinality(SameNamed(drive'.files, n, d)) <= 1 ]_vars

\* a call has found the file that an earlier call created, and has returned
\* its identifier without creating another
C20_Witness ==
    /\ drive.calls >= 2
    /\ drive.outcome = "returned"
    /\ ~drive.created
    /\ drive.result < OldFileId
    /\ \E f \in drive.files : f.id = drive.result /\ "'" \in {f.name[k] : k \in 1..Len(f.name)}

\* C23: while a run is in the tool-use loop its recording's status is
\* analyzing and the gate is held by it; a tool_use response leaves the run in
\* the loop, and the run leaves the loop only on another stop reason or on
\* an exception.
C23_LoopHoldsGate ==
    [][ \A i \in Reqs :
          wk[i].pc = "analyze"
          => /\ lockHolder = i
             /\ statusFile[req[i].id].status = "analyzing"
             /\ wk'[i].rounds > wk[i].rounds => wk'[i].pc = "analyze"
             /\ wk'[i].pc \in {"analyze", "archive", "set_error"} ]_vars

\* the recordings that have an entry in the status store
StoredIds == {id \in RecIds : statusFile[id] # NoEntry}

\* C24: a write of the status store changes the entry of one recording only
\* (its filename only when one is given), and never removes an entry.
C24_OnlyOwnEntry ==
    [][ statusFile' # statusFile
        => /\ \E id \in RecIds :
                 /\ \A other \in RecIds \ {id} : statusFile'[other] = statusFile[other]
                 /\ statusFile[id] # NoEntry
                       => statusFile'[id].filename \in
                             {statusFile[id].filename} \cup
                             {wk[i].filename : i \in Reqs} \cup {req[i].raw : i \in Reqs}
           /\ StoredIds \subseteq {id \in RecIds : statusFile'[id] # NoEntry} ]_vars

\* every request was answered and every worker thread has ended
Quiescent ==
    \A i \in Reqs : req[i].pc = "done" /\ wk[i].pc \in {"none", "done", "crashed"}

\* C26: once all writes are complete, the stored status of each recording
\* that a run was started for is the status a run wrote last for it.
C26_NoLostWrite ==
    Quiescent
    => \A i \in Reqs :
          req[i].resp = 200
          => /\ statusFile[req[i].id] # NoEntry
             /\ statusFile[req[i].id].status \in
                   {wk[j].last : j \in {k \in Reqs : req[k].resp = 200 /\ req[k].id = req[i].id}}

\* C27: a second trigger for a recording is accepted only after the run that
\* the first one started has written a terminal status.
C27_NoDoubleTrigger ==
    [][ \A j \in Reqs :
          (req[j].pc = "queue_write" /\ wk'[j].pc = "start")
          => \A i \in Reqs \ {j} :
                (req[i].resp = 200 /\ req[i].id = req[j].id)
                => wk[i].last \in TerminalNames ]_vars

\* C29: the processing lock is held exactly while a worker thread is inside
\* process_plaud_recording: however a run ends, the lock is free again.
C29_LockFollowsRun ==
    /\ \A i \in Reqs : (lockHolder = i) <=> (wk[i].pc \in InPipeline)
    /\ lockHolder \in Reqs \cup {0}

\* a run has ended with an exception leaving the pipeline function; the gate
\* is free and a later trigger has gone through the gate check
C29_Witness ==
    /\ lockHolder = 0
    /\ \E i, j \in Reqs : /\ wk[i].pc = "crashed"
                          /\ req[j].pc = "queue_load"

\* C30: the transcript that _find_existing_transcript finds for a base name
\* is one written for that base name.
C30_OwnTranscriptOnly ==
    \A i \in Reqs :
        wk[i].pc = "find"
        => LET base_name == SplitextRoot(wk[i].filename)
               found == _find_existing_transcript(base_name, transcripts)
           IN  found = <<>> \/ found \in {f.name : f \in OwnTranscripts(base_name)}

\* C28: every accepted trigger is eventually followed by a terminal status
\* written by its run.
C28_EventuallyTerminal ==
    \A i \in Reqs : (wk[i].pc = "start") ~> (wk[i].last \in TerminalNames)

\* C25: the local file name the stage runner uses for a provider name is the
\* name the recordings list and the delete endpoints derive for it; it is not
\* empty and holds no path separator.
C25_SameLocalName ==
    naming.pc = "derived"
    => /\ naming.filename = naming.safe_name
       /\ naming.filename # <<>>
       /\ \A k \in 1..Len(naming.filename) : naming.filename[k] \notin {"/", "\\"}

\* the part of C25 that the code keeps: the stage runner's name is not empty
\* and holds only the characters _sanitize_filename keeps
C25_SafeLocalName ==
    naming.pc = "derived"
    => /\ naming.filename # <<>>
       /\ \A k \in 1..Len(naming.filename) : naming.filename[k] \in KeepChars

IsPrefix(s, t) == Len(s) <= Len(t) /\ SubSeq(t, 1, Len(s)) = s

IsToolUse(block) == block.type = "tool_use"

\* C21: a response with stop reason end_turn ends the loop with the history
\* as it was; one with tool_use whose tools all return appends the response
\* content as one assistant message and then one user message with one
\* tool_result per tool_use block, in order and with that block's id, and the
\* loop goes on; any other stop reason raises.  The old history is always a
\* prefix of the new one.
C21_ResponseHandling ==
    [][(loop.pc = "request" /\ loop' # loop)
       => LET r == loop'.response
              n == Len(loop.messages)
              tb == SelectSeq(r.content, IsToolUse)
          IN  /\ IsPrefix(loop.messages, loop'.messages)
              /\ r.stop_reason = "end_turn"
                 => loop'.pc = "done" /\ loop'.messages = loop.messages
              /\ (r.stop_reason = "tool_use" /\ loop'.error = "none")
                 => /\ loop'.pc = "request"
                    /\ Len(loop'.messages) = n + 2
                    /\ loop'.messages[n + 1] = [role |-> "assistant", content |-> r.content]
                    /\ loop'.messages[n + 2].role = "user"
                    /\ LET tr == loop'.messages[n + 2].content
                       IN  /\ Len(tr) = Len(tb)
                           /\ \A k \in 1..Len(tb) :
                                 /\ tr[k].type = "tool_result"
                                 /\ tr[k].tool_use_id = tb[k].id
              /\ (r.stop_reason \notin {"none", "end_turn", "tool_use"})
                 => loop'.pc = "raised" /\ loop'.error = "stop_reason"
      ]_vars

\* a run that handled two tool_use responses, one of them with two tool_use
\* blocks, and then ended on end_turn
C21_Witness ==
    /\ loop.pc = "done"
    /\ loop.rounds = 2
    /\ \E m \in 2..Len(loop.messages) :
          /\ loop.messages[m].role = "user"
          /\ Len(loop.messages[m].content) = 2
          /\ loop.messages[m].content[1].tool_use_id # loop.messages[m].content[2].tool_use_id

====
